---------------------------- MODULE Spec2Model ----------------------------
(***************************************************************************)
(* A model of pyfoal's P2FA baseline (src/pyfoal/baselines/p2fa.py):       *)
(*   - Aligner.correct_alignment, the duration arithmetic        (SpecCorrect) *)
(*   - Aligner.lint, the text normalisation                      (SpecLint)    *)
(*   - Aligner.write_pronunciation with Aligner.split_phonemes   (SpecPron)    *)
(*   - align / Aligner.__call__, one item's pipeline with the two HTK      *)
(*     subprocesses and the temporary directory                  (Spec)        *)
(*   - from_files_to_files, the multiprocessing batch driver     (SpecBatch)   *)
(*                                                                         *)
(* Every sub-model has variables of its own; a specification leaves the    *)
(* variables of the other sub-models at their idle values.                 *)
(*                                                                         *)
(* Time is counted in ticks of 1/176400 s, the coarsest unit in which the  *)
(* 0.0125 s onset offset, a 10 ms HTK frame and their products with        *)
(* 11000/11025 are all whole numbers, so the arithmetic below is exact.    *)
(***************************************************************************)
EXTENDS Integers, Sequences, FiniteSets, TLC

VARIABLES
    \* Aligner.correct_alignment
    caRaw,          \* raw phoneme durations read from the decoder's output (ticks)
    caDuration,     \* the duration argument: the utterance's true duration (ticks)
    caPc,           \* "idle" | "call" | "returned" | "raised"
    caDurations,    \* the corrected durations handed to alignment.update
    caAlignment,    \* the segments of the returned alignment: [start, end]
    \* Aligner.lint
    lintText,       \* the text given to lint
    lintOnce,       \* lint(text)
    lintTwice,      \* lint(lint(text))
    lintPc,         \* "idle" | "call" | "once" | "twice"
    \* Aligner.write_pronunciation
    wpText,         \* the (linted) text
    wpG2P,          \* what G2P produces for each word of the text, in order
    wpLines,        \* the list `lines` as built, before sorting
    wpFile,         \* the lines written to the dictionary file, in order
    wpPc,           \* "idle" | "call" | "done"
    \* align / Aligner.__call__
    pc,             \* the position of the calling process
    audioLen,       \* len(audio)
    sampleRate,     \* the sample_rate argument
    duration,       \* [num, den]: len(audio) / sample_rate
    dirExists,      \* the temporary directory exists
    files,          \* the names of the files in the temporary directory
    scanned,        \* the entries rmtree listed and has still to unlink
    exc,            \* the exception in flight, "none" when there is none
    wav,            \* sound.wav as written: [samples, rate]
    hcopy,          \* the HCopy subprocess: "none" | "started" | "read" | "exited"
    hvite,          \* the HVite subprocess: "none" | "running" | "exited"
    hviteExit,      \* HVite's exit code, -1 before it exits
    audio,          \* len of the array `audio` names when the aligner is called
    alignment,      \* "none" | "alignment": the local of __call__
    result,         \* "none" | "alignment": what __call__ returned
    \* from_files_to_files
    bFailing,       \* the items whose pipeline raises
    bWorkers,       \* num_workers
    bQueue,         \* the chunks not yet taken by a worker
    bWorker,        \* worker -> [busy, left]: the items left of the chunk it runs
    bOutputs,       \* the items whose output file has been written
    bDone,          \* the number of chunks that have finished
    bExc,           \* "raised" once a chunk has reported an exception, else "none"
    bCall           \* "idle" | "running" | "returned" | "raised"

correctVars == <<caRaw, caDuration, caPc, caDurations, caAlignment>>
lintVars == <<lintText, lintOnce, lintTwice, lintPc>>
pronVars == <<wpText, wpG2P, wpLines, wpFile, wpPc>>
pipeVars == <<pc, audioLen, sampleRate, duration, dirExists, files, scanned,
              exc, wav, hcopy, hvite, hviteExit, audio, alignment, result>>
batchVars == <<bFailing, bWorkers, bQueue, bWorker, bOutputs, bDone, bExc, bCall>>
vars == <<correctVars, lintVars, pronVars, pipeVars, batchVars>>

CorrectIdle ==
    /\ caRaw = <<>> /\ caDuration = 0 /\ caPc = "idle"
    /\ caDurations = <<>> /\ caAlignment = <<>>

LintIdle ==
    /\ lintText = <<>> /\ lintOnce = <<>> /\ lintTwice = <<>> /\ lintPc = "idle"

PronIdle ==
    /\ wpText = <<>> /\ wpG2P = <<>> /\ wpLines = <<>> /\ wpFile = <<>>
    /\ wpPc = "idle"

PipeIdle ==
    /\ pc = "idle" /\ audioLen = 0 /\ sampleRate = 0
    /\ duration = [num |-> 0, den |-> 1]
    /\ dirExists = FALSE /\ files = {} /\ scanned = {} /\ exc = "none"
    /\ wav = [samples |-> 0, rate |-> 0]
    /\ hcopy = "none" /\ hvite = "none" /\ hviteExit = -1
    /\ audio = 0 /\ alignment = "none" /\ result = "none"

BatchIdle ==
    /\ bFailing = {} /\ bWorkers = 0 /\ bQueue = <<>> /\ bWorker = <<>>
    /\ bOutputs = {} /\ bDone = 0 /\ bExc = "none" /\ bCall = "idle"

RECURSIVE SumSeq(_)
SumSeq(s) == IF s = <<>> THEN 0 ELSE Head(s) + SumSeq(Tail(s))

(***************************************************************************)
(* Aligner.correct_alignment                                               *)
(***************************************************************************)

MaxPhonemes == 3
MaxFrames == 2
MaxDurationSteps == 12

TicksPerSecond == 400 * 441
\* .0125 s
OnsetOffset == TicksPerSecond \div 80
\* HTK's 10 ms frame: the decoder's label times are whole frames
FrameTicks == TicksPerSecond \div 100

\* d * 11000. / 11025.
Rate(d) == (d * 11000) \div 11025

RawDurations ==
    UNION { [1..n -> {f * FrameTicks : f \in 0..MaxFrames}] : n \in 0..MaxPhonemes }

TrueDurations == { s * (FrameTicks \div 2) : s \in 0..MaxDurationSteps }

\* The reconciliation of line 140 left out.
CorrectedDurations_NoReconcile(raw, D) ==
    LET shifted == [raw EXCEPT ![1] = @ + OnsetOffset]
    IN  [i \in 1..Len(raw) |-> Rate(shifted[i])]

\* The onset offset added after the rate multiplication instead of before it.
CorrectedDurations_OffsetAfterRate(raw, D) ==
    LET n == Len(raw)
        scaled == [i \in 1..n |-> Rate(raw[i])]
        shifted == [scaled EXCEPT ![1] = @ + OnsetOffset]
    IN  [shifted EXCEPT ![n] = D - SumSeq(SubSeq(shifted, 1, n - 1))]

\* The list `durations` after lines 136-140, for a non-empty raw list.
CorrectedDurations(raw, D) ==
    LET n == Len(raw)
        shifted == [raw EXCEPT ![1] = @ + OnsetOffset]
        scaled == [i \in 1..n |-> Rate(shifted[i])]
    IN  [scaled EXCEPT ![n] = D - SumSeq(SubSeq(scaled, 1, n - 1))]

\* alignment.update(durations=...): pypar rebuilds every phoneme's start and
\* end by running a cursor over the durations, starting at 0.
RECURSIVE Update(_, _)
Update(durations, start) ==
    IF durations = <<>> THEN <<>>
    ELSE <<[start |-> start, end |-> start + Head(durations)]>>
         \o Update(Tail(durations), start + Head(durations))

CorrectInit ==
    /\ caRaw \in RawDurations
    /\ caDuration \in TrueDurations
    /\ caPc = "call"
    /\ caDurations = <<>>
    /\ caAlignment = <<>>
    /\ LintIdle /\ PronIdle /\ PipeIdle /\ BatchIdle

\* durations[0] += .0125 raises IndexError on an empty list; nothing else in
\* the function inspects the durations.
CorrectAlignment ==
    /\ caPc = "call"
    /\ IF caRaw = <<>>
       THEN /\ caPc' = "raised"
            /\ UNCHANGED <<caDurations, caAlignment>>
       ELSE /\ caDurations' = CorrectedDurations(caRaw, caDuration)
            /\ caAlignment' = Update(caDurations', 0)
            /\ caPc' = "returned"
    /\ UNCHANGED <<caRaw, caDuration, lintVars, pronVars, pipeVars, batchVars>>

CorrectNext == CorrectAlignment

SpecCorrect == CorrectInit /\ [][CorrectNext]_vars

\* C1: once correct_alignment has returned for a non-empty raw sequence, the
\* corrected durations sum to the true duration and the rebuilt segments are
\* contiguous: the first starts at 0, every end is the next start, the last
\* ends at the true duration, and each segment spans its corrected duration.
C1_Coverage ==
    caPc = "returned" =>
        LET n == Len(caRaw) IN
        /\ Len(caDurations) = n
        /\ Len(caAlignment) = n
        /\ SumSeq(caDurations) = caDuration
        /\ caAlignment[1].start = 0
        /\ \A i \in 1..(n - 1) : caAlignment[i].end = caAlignment[i + 1].start
        /\ caAlignment[n].end = caDuration
        /\ \A i \in 1..n : caAlignment[i].end - caAlignment[i].start = caDurations[i]

C1_Witness ==
    /\ caPc = "returned"
    /\ Len(caRaw) >= 3
    /\ caDuration > 0
    /\ caDurations[Len(caRaw)] # Rate(caRaw[Len(caRaw)])
    /\ caAlignment[Len(caRaw)].end = caDuration

\* C2: with two or more raw durations, the first corrected duration is
\* (d0 + 0.0125) * 11000/11025, every middle one is d_i * 11000/11025, and the
\* last is the true duration minus the corrected ones before it (the last raw
\* duration appears nowhere in the result).
C2_CorrectionOrder ==
    (caPc = "returned" /\ Len(caRaw) >= 2) =>
        LET n == Len(caRaw) IN
        /\ caDurations[1] * 11025 = (caRaw[1] + OnsetOffset) * 11000
        /\ \A i \in 2..(n - 1) : caDurations[i] * 11025 = caRaw[i] * 11000
        /\ caDurations[n] = caDuration - SumSeq(SubSeq(caDurations, 1, n - 1))

C2_Witness ==
    /\ caPc = "returned"
    /\ Len(caRaw) >= 3
    /\ caRaw[1] > 0 /\ caRaw[2] > 0 /\ caRaw[Len(caRaw)] > 0
    /\ caDurations[1] # caRaw[1] + OnsetOffset
    /\ caDurations[2] # caRaw[2]

\* C8: whenever reconciliation makes a corrected duration negative (the
\* corrected durations before the last sum to more than the true duration),
\* correct_alignment does not return an alignment.
C8_NegativeIsHardFailure ==
    (/\ caRaw # <<>>
     /\ \E i \in 1..Len(caRaw) : CorrectedDurations(caRaw, caDuration)[i] < 0)
        => caPc # "returned"

(***************************************************************************)
(* Aligner.lint                                                            *)
(***************************************************************************)

MaxLintLen == 3

\* "," stands for the characters of string.punctuation + '”“—' other than '-'
Punctuation == {","}

LintChars == {"a", " ", "\n", "\t", "-"} \cup Punctuation

LintTexts == UNION { [1..n -> LintChars] : n \in 0..MaxLintLen }

\* text.replace(old, new) for one-character old and new
RECURSIVE Replace(_, _, _)
Replace(text, old, new) ==
    IF text = <<>> THEN <<>>
    ELSE <<IF Head(text) = old THEN new ELSE Head(text)>>
         \o Replace(Tail(text), old, new)

\* '  ' in text
HasDoubleSpace(text) ==
    \E i \in 1..(Len(text) - 1) : text[i] = " " /\ text[i + 1] = " "

\* text.replace('  ', ' '): one pass over the text from the left, replacing
\* the occurrences that do not overlap
RECURSIVE ReplaceDoubleSpace(_)
ReplaceDoubleSpace(text) ==
    IF Len(text) < 2 THEN text
    ELSE IF text[1] = " " /\ text[2] = " "
         THEN <<" ">> \o ReplaceDoubleSpace(SubSeq(text, 3, Len(text)))
         ELSE <<text[1]>> \o ReplaceDoubleSpace(Tail(text))

\* while '  ' in text: text = text.replace('  ', ' ')
RECURSIVE CollapseSpaces(_)
CollapseSpaces(text) ==
    IF HasDoubleSpace(text) THEN CollapseSpaces(ReplaceDoubleSpace(text)) ELSE text

\* g2p_en.expand.normalize_numbers: every rule of it rewrites a match that
\* holds a digit, and LintChars has no digit
NormalizeNumbers(text) == text

\* text.translate(str.maketrans('-', ' ', punctuation)): a hyphen becomes a
\* space, a punctuation character is deleted, anything else is kept
RECURSIVE Translate(_)
Translate(text) ==
    IF text = <<>> THEN <<>>
    ELSE (IF Head(text) \in Punctuation THEN <<>>
          ELSE IF Head(text) = "-" THEN <<" ">>
          ELSE <<Head(text)>>)
         \o Translate(Tail(text))

Lint(text) ==
    Translate(NormalizeNumbers(CollapseSpaces(
        Replace(Replace(text, "\n", " "), "\t", " "))))

LintInit ==
    /\ lintText \in LintTexts
    /\ lintOnce = <<>>
    /\ lintTwice = <<>>
    /\ lintPc = "call"
    /\ CorrectIdle /\ PronIdle /\ PipeIdle /\ BatchIdle

\* text = self.lint(text)
LintFirst ==
    /\ lintPc = "call"
    /\ lintOnce' = Lint(lintText)
    /\ lintPc' = "once"
    /\ UNCHANGED <<lintText, lintTwice, correctVars, pronVars, pipeVars, batchVars>>

\* lint applied to its own result
LintSecond ==
    /\ lintPc = "once"
    /\ lintTwice' = Lint(lintOnce)
    /\ lintPc' = "twice"
    /\ UNCHANGED <<lintText, lintOnce, correctVars, pronVars, pipeVars, batchVars>>

LintNext == LintFirst \/ LintSecond

SpecLint == LintInit /\ [][LintNext]_vars

\* C6: lint is idempotent, lint(lint(t)) = lint(t), and the result of lint
\* holds no two spaces in a row.
C6_LintIdempotent ==
    /\ lintPc \in {"once", "twice"} => ~HasDoubleSpace(lintOnce)
    /\ lintPc = "twice" => lintTwice = lintOnce

(***************************************************************************)
(* Aligner.write_pronunciation and Aligner.split_phonemes                  *)
(***************************************************************************)

MaxPronTextLen == 4
MaxPronLen == 1

\* The characters of a linted text: letters and spaces
PronChars == {"s", "p", " "}

\* ord(c) of the characters that occur in a dictionary line
Ord(c) ==
    CASE c = "\n" -> 10
      [] c = " " -> 32
      [] c = "P" -> 80
      [] c = "S" -> 83
      [] c = "p" -> 112
      [] c = "s" -> 115

\* c.upper()
UpperChar(c) ==
    CASE c = "s" -> "S"
      [] c = "p" -> "P"
      [] OTHER -> c

\* text.upper() left out
UpperText_Identity(text) == text

\* text.upper()
UpperText(text) == [i \in 1..Len(text) |-> UpperChar(text[i])]

\* text.split(): the maximal runs of characters that are not whitespace
RECURSIVE SplitFrom(_, _, _)
SplitFrom(text, word, words) ==
    IF text = <<>> THEN (IF word = <<>> THEN words ELSE Append(words, word))
    ELSE IF Head(text) = " "
         THEN SplitFrom(Tail(text), <<>>,
                        IF word = <<>> THEN words ELSE Append(words, word))
         ELSE SplitFrom(Tail(text), Append(word, Head(text)), words)

Split(text) == SplitFrom(text, <<>>, <<>>)

\* The phoneme symbols G2P may produce, each a string
Phonemes == {<<"S">>, <<"s", "p">>}

\* G2P's marker between two words
SpaceMarker == <<" ">>

\* What G2P may produce for one word: up to MaxPronLen phonemes, or none
PronChoices == UNION { [1..n -> Phonemes] : n \in 0..MaxPronLen }

\* g2p_en.G2p()(text): the phonemes of every word followed by a space
\* marker, without the last marker (prons[:-1])
RECURSIVE G2PExtend(_)
G2PExtend(prons) ==
    IF prons = <<>> THEN <<>>
    ELSE Head(prons) \o <<SpaceMarker>> \o G2PExtend(Tail(prons))

G2P(prons) ==
    LET flat == G2PExtend(prons)
    IN  IF flat = <<>> THEN <<>> ELSE SubSeq(flat, 1, Len(flat) - 1)

\* Aligner.split_phonemes: the loop over phonemes with its two accumulators
RECURSIVE SplitPhonemesFrom(_, _, _)
SplitPhonemesFrom(phonemes, word, words) ==
    IF phonemes = <<>>
    THEN (IF word # <<>> THEN Append(words, word) ELSE words)
    ELSE IF Head(phonemes) = SpaceMarker /\ word # <<>>
         THEN SplitPhonemesFrom(Tail(phonemes), <<>>, Append(words, word))
         ELSE SplitPhonemesFrom(Tail(phonemes), Append(word, Head(phonemes)), words)

SplitPhonemes(phonemes) == SplitPhonemesFrom(phonemes, <<>>, <<>>)

\* ' '.join(p)
RECURSIVE Join(_)
Join(p) ==
    IF p = <<>> THEN <<>>
    ELSE IF Len(p) = 1 THEN Head(p)
    ELSE Head(p) \o <<" ">> \o Join(Tail(p))

\* '{}  {}\n'.format(w, ' '.join(p))
Line(w, p) == w \o <<" ", " ">> \o Join(p) \o <<"\n">>

\* 'sp  sp\n'
SilenceLine == <<"s", "p", " ", " ", "s", "p", "\n">>

\* a < b for two strings: Python compares code point by code point, and a
\* proper prefix is the smaller
RECURSIVE StrLess(_, _)
StrLess(a, b) ==
    IF b = <<>> THEN FALSE
    ELSE IF a = <<>> THEN TRUE
    ELSE IF Ord(Head(a)) # Ord(Head(b)) THEN Ord(Head(a)) < Ord(Head(b))
    ELSE StrLess(Tail(a), Tail(b))

\* sorted(lines): stable, an element goes after the ones not greater than it
RECURSIVE Insert(_, _)
Insert(x, sortedLines) ==
    IF sortedLines = <<>> THEN <<x>>
    ELSE IF StrLess(x, Head(sortedLines)) THEN <<x>> \o sortedLines
    ELSE <<Head(sortedLines)>> \o Insert(x, Tail(sortedLines))

RECURSIVE Sorted(_)
Sorted(lines) ==
    IF lines = <<>> THEN <<>>
    ELSE Insert(lines[Len(lines)], Sorted(SubSeq(lines, 1, Len(lines) - 1)))

\* for line in sorted(lines): file.write(line)
WrittenLines(lines) == Sorted(lines)

\* zip(text.upper().split(), self.split_phonemes(phonemes)) turned into
\* lines, then lines.append('sp  sp\n')
DictionaryLines(text, phonemes) ==
    LET ws == Split(UpperText(text))
        ps == SplitPhonemes(phonemes)
        n == IF Len(ws) < Len(ps) THEN Len(ws) ELSE Len(ps)
    IN  [i \in 1..n |-> Line(ws[i], ps[i])] \o <<SilenceLine>>

PronInit ==
    /\ wpText \in UNION { [1..n -> PronChars] : n \in 0..MaxPronTextLen }
    /\ wpG2P \in [1..Len(Split(wpText)) -> PronChoices]
    /\ wpLines = <<>>
    /\ wpFile = <<>>
    /\ wpPc = "call"
    /\ CorrectIdle /\ LintIdle /\ PipeIdle /\ BatchIdle

WritePronunciation ==
    /\ wpPc = "call"
    /\ wpLines' = DictionaryLines(wpText, G2P(wpG2P))
    /\ wpFile' = WrittenLines(wpLines')
    /\ wpPc' = "done"
    /\ UNCHANGED <<wpText, wpG2P, correctVars, lintVars, pipeVars, batchVars>>

PronNext == WritePronunciation

SpecPron == PronInit /\ [][PronNext]_vars

\* C7: when G2P returns no phonemes for some word, the dictionary still has
\* one line per word of the text, in order before the silence line, and the
\* line of word i carries exactly the phonemes G2P produced for word i (none
\* for the gap word).
C7_GapKeepsEveryWord ==
    (wpPc = "done" /\ \E i \in 1..Len(wpG2P) : wpG2P[i] = <<>>) =>
        LET ws == Split(UpperText(wpText)) IN
        /\ Len(wpLines) = Len(ws) + 1
        /\ \A i \in 1..Len(ws) : wpLines[i] = Line(ws[i], wpG2P[i])

\* C9: the lines written to the dictionary file are in non-decreasing
\* lexicographic order and the silence line 'sp  sp' is among them exactly once.
C9_SortedOneSilence ==
    wpPc = "done" =>
        /\ \A i \in 1..(Len(wpFile) - 1) : ~StrLess(wpFile[i + 1], wpFile[i])
        /\ Cardinality({i \in 1..Len(wpFile) : wpFile[i] = SilenceLine}) = 1

C9_Witness ==
    /\ wpPc = "done"
    /\ \E i \in 1..Len(wpG2P) :
          Split(wpText)[i] = <<"s", "p">> /\ wpG2P[i] = <<<<"s", "p">>>>
    /\ Len(wpFile) >= 3
    /\ wpFile # wpLines

(***************************************************************************)
(* align and Aligner.__call__: one item's pipeline.  The calling process   *)
(* runs the stages in program order; HCopy and HVite are processes of      *)
(* their own, and every step of theirs interleaves with the caller's.      *)
(***************************************************************************)

MaxAudioLen == 3

\* The sampling rate that P2FA uses
SAMPLE_RATE == 11025

SampleRates == {SAMPLE_RATE, 16000, 44100}

AudioLens == { k * 1000 : k \in 1..MaxAudioLen }

\* resampy.resample(audio, sample_rate, SAMPLE_RATE): the length of the
\* array it returns
Resample(samples, rate, target) == (samples * target) \div rate

\* The array `audio` names after lines 36-37: resample returns a new array,
\* the statement drops it, and `audio` still names the array passed in.
AudioAfterMaybeResample(samples, rate) ==
    LET resampled == IF rate # SAMPLE_RATE
                     THEN Resample(samples, rate, SAMPLE_RATE)
                     ELSE samples
    IN  samples

PipeInit ==
    /\ pc = "align"
    /\ audioLen \in AudioLens
    /\ sampleRate \in SampleRates
    /\ duration = [num |-> 0, den |-> 1]
    /\ audio = 0
    /\ dirExists = FALSE /\ files = {} /\ scanned = {} /\ exc = "none"
    /\ wav = [samples |-> 0, rate |-> 0]
    /\ hcopy = "none" /\ hvite = "none" /\ hviteExit = -1
    /\ alignment = "none" /\ result = "none"
    /\ CorrectIdle /\ LintIdle /\ PronIdle /\ BatchIdle

\* align, up to the call of the aligner
Align ==
    /\ pc = "align"
    /\ duration' = [num |-> audioLen, den |-> sampleRate]
    /\ audio' = AudioAfterMaybeResample(audioLen, sampleRate)
    /\ pc' = "enter"
    /\ UNCHANGED <<audioLen, sampleRate, dirExists, files, scanned, exc, wav,
                   hcopy, hvite, hviteExit, alignment, result>>
    /\ UNCHANGED <<correctVars, lintVars, pronVars, batchVars>>

\* with tempfile.TemporaryDirectory() as directory
EnterDirectory ==
    /\ pc = "enter"
    /\ dirExists' = TRUE
    /\ pc' = "format"
    /\ UNCHANGED <<audioLen, sampleRate, duration, audio, files, scanned, exc,
                   wav, hcopy, hvite, hviteExit, alignment, result>>
    /\ UNCHANGED <<correctVars, lintVars, pronVars, batchVars>>

\* Aligner.format: writes sound.wav at SAMPLE_RATE, the two script files,
\* and starts HCopy without waiting for it
Format ==
    /\ pc = "format"
    /\ wav' = [samples |-> audio, rate |-> SAMPLE_RATE]
    /\ files' = files \cup {"sound.wav", "codetr.scp", "test.scp"}
    /\ hcopy' = "started"
    /\ pc' = "lint"
    /\ UNCHANGED <<audioLen, sampleRate, duration, audio, dirExists, scanned,
                   exc, hvite, hviteExit, alignment, result>>
    /\ UNCHANGED <<correctVars, lintVars, pronVars, batchVars>>

\* text = self.lint(text)
LintStage ==
    /\ pc = "lint"
    /\ pc' = "write_words"
    /\ UNCHANGED <<audioLen, sampleRate, duration, audio, dirExists, files,
                   scanned, exc, wav, hcopy, hvite, hviteExit, alignment, result>>
    /\ UNCHANGED <<correctVars, lintVars, pronVars, batchVars>>

\* Aligner.write_words, the first argument of the call of viterbi
WriteWords ==
    /\ pc = "write_words"
    /\ files' = files \cup {"tmp.mlf"}
    /\ pc' = "write_pronunciation"
    /\ UNCHANGED <<audioLen, sampleRate, duration, audio, dirExists, scanned,
                   exc, wav, hcopy, hvite, hviteExit, alignment, result>>
    /\ UNCHANGED <<correctVars, lintVars, pronVars, batchVars>>

\* Aligner.write_pronunciation, the second argument
WriteDictionary ==
    /\ pc = "write_pronunciation"
    /\ files' = files \cup {"dictionary"}
    /\ pc' = "viterbi"
    /\ UNCHANGED <<audioLen, sampleRate, duration, audio, dirExists, scanned,
                   exc, wav, hcopy, hvite, hviteExit, alignment, result>>
    /\ UNCHANGED <<correctVars, lintVars, pronVars, batchVars>>

\* Aligner.viterbi: opens aligned.results and starts HVite
Viterbi ==
    /\ pc = "viterbi"
    /\ files' = files \cup {"aligned.results"}
    /\ hvite' = "running"
    /\ pc' = "wait"
    /\ UNCHANGED <<audioLen, sampleRate, duration, audio, dirExists, scanned,
                   exc, wav, hcopy, hviteExit, alignment, result>>
    /\ UNCHANGED <<correctVars, lintVars, pronVars, batchVars>>

\* .wait(): blocks until HVite has exited; the exit code it returns is dropped
ViterbiWait ==
    /\ pc = "wait"
    /\ hvite = "exited"
    /\ pc' = "correct"
    /\ UNCHANGED <<audioLen, sampleRate, duration, audio, dirExists, files,
                   scanned, exc, wav, hcopy, hvite, hviteExit, alignment, result>>
    /\ UNCHANGED <<correctVars, lintVars, pronVars, batchVars>>

\* Aligner.correct_alignment: pypar.Alignment(alignment_file) raises when
\* the file is not there; otherwise the corrected alignment is the local
CorrectStage ==
    /\ pc = "correct"
    /\ IF "alignment.mlf" \in files
       THEN alignment' = "alignment" /\ exc' = exc
       ELSE alignment' = alignment /\ exc' = "FileNotFoundError"
    /\ pc' = "rmtree_scan"
    /\ UNCHANGED <<audioLen, sampleRate, duration, audio, dirExists, files,
                   scanned, wav, hcopy, hvite, hviteExit, result>>
    /\ UNCHANGED <<correctVars, lintVars, pronVars, batchVars>>

\* TemporaryDirectory.__exit__ -> shutil.rmtree: lists the directory,
RmtreeScan ==
    /\ pc = "rmtree_scan"
    /\ scanned' = files
    /\ pc' = "rmtree_unlink"
    /\ UNCHANGED <<audioLen, sampleRate, duration, audio, dirExists, files, exc,
                   wav, hcopy, hvite, hviteExit, alignment, result>>
    /\ UNCHANGED <<correctVars, lintVars, pronVars, batchVars>>

\* unlinks the entries it listed,
RmtreeUnlink ==
    /\ pc = "rmtree_unlink"
    /\ files' = files \ scanned
    /\ scanned' = {}
    /\ pc' = "rmtree_rmdir"
    /\ UNCHANGED <<audioLen, sampleRate, duration, audio, dirExists, exc, wav,
                   hcopy, hvite, hviteExit, alignment, result>>
    /\ UNCHANGED <<correctVars, lintVars, pronVars, batchVars>>

\* and removes the directory: rmdir fails on a directory that is not empty,
\* and the OSError replaces whatever was in flight
RmtreeRmdir ==
    /\ pc = "rmtree_rmdir"
    /\ IF files = {}
       THEN dirExists' = FALSE /\ exc' = exc
       ELSE dirExists' = dirExists /\ exc' = "OSError"
    /\ pc' = "exit"
    /\ UNCHANGED <<audioLen, sampleRate, duration, audio, files, scanned, wav,
                   hcopy, hvite, hviteExit, alignment, result>>
    /\ UNCHANGED <<correctVars, lintVars, pronVars, batchVars>>

\* return alignment, or the exception leaves __call__ and align
Return ==
    /\ pc = "exit"
    /\ IF exc = "none"
       THEN result' = alignment /\ pc' = "returned"
       ELSE result' = result /\ pc' = "raised"
    /\ UNCHANGED <<audioLen, sampleRate, duration, audio, dirExists, files,
                   scanned, exc, wav, hcopy, hvite, hviteExit, alignment>>
    /\ UNCHANGED <<correctVars, lintVars, pronVars, batchVars>>

\* HCopy opens its script and the source audio
HCopyRead ==
    /\ hcopy = "started"
    /\ {"codetr.scp", "sound.wav"} \subseteq files
    /\ hcopy' = "read"
    /\ UNCHANGED <<pc, audioLen, sampleRate, duration, audio, dirExists, files,
                   scanned, exc, wav, hvite, hviteExit, alignment, result>>
    /\ UNCHANGED <<correctVars, lintVars, pronVars, batchVars>>

\* HCopy creates tmp.plp and exits; the creation fails in a directory that
\* is gone
HCopyWrite ==
    /\ hcopy = "read"
    /\ files' = IF dirExists THEN files \cup {"tmp.plp"} ELSE files
    /\ hcopy' = "exited"
    /\ UNCHANGED <<pc, audioLen, sampleRate, duration, audio, dirExists,
                   scanned, exc, wav, hvite, hviteExit, alignment, result>>
    /\ UNCHANGED <<correctVars, lintVars, pronVars, batchVars>>

\* HCopy exits without a feature file: its inputs are gone, or it rejects them
HCopyFail ==
    /\ hcopy = "started"
    /\ hcopy' = "exited"
    /\ UNCHANGED <<pc, audioLen, sampleRate, duration, audio, dirExists, files,
                   scanned, exc, wav, hvite, hviteExit, alignment, result>>
    /\ UNCHANGED <<correctVars, lintVars, pronVars, batchVars>>

\* HVite runs and exits.  Without the feature file it cannot decode: it
\* writes no alignment and exits non-zero.  With it, it exits 0 having
\* written alignment.mlf, or non-zero, before or after having written it.
HViteRun ==
    /\ hvite = "running"
    /\ \E wrote \in BOOLEAN, code \in {0, 1} :
          /\ "tmp.plp" \notin files => (~wrote /\ code = 1)
          /\ code = 0 => wrote
          /\ files' = IF wrote THEN files \cup {"alignment.mlf"} ELSE files
          /\ hviteExit' = code
    /\ hvite' = "exited"
    /\ UNCHANGED <<pc, audioLen, sampleRate, duration, audio, dirExists,
                   scanned, exc, wav, hcopy, alignment, result>>
    /\ UNCHANGED <<correctVars, lintVars, pronVars, batchVars>>

Next ==
    \/ Align \/ EnterDirectory \/ Format \/ LintStage \/ WriteWords
    \/ WriteDictionary \/ Viterbi \/ ViterbiWait \/ CorrectStage
    \/ RmtreeScan \/ RmtreeUnlink \/ RmtreeRmdir \/ Return
    \/ HCopyRead \/ HCopyWrite \/ HCopyFail \/ HViteRun

Spec == PipeInit /\ [][Next]_vars

\* C3: when HVite has exited with a non-zero code, the call ends in a
\* failure: it never returns, and no alignment is its result.
C3_NonZeroExitFails ==
    (hvite = "exited" /\ hviteExit # 0) =>
        (pc # "returned" /\ result # "alignment")

\* C5: once the call has returned or raised, its temporary directory is
\* gone with every file in it (so nothing can be created in it afterwards).
C5_WorkspaceGone ==
    pc \in {"returned", "raised"} => (~dirExists /\ files = {})

\* C10: when sample_rate differs from 11025, the samples written to
\* sound.wav, stamped 11025, last as long as the utterance: the written
\* count / 11025 equals len(audio) / sample_rate up to one sample.
C10_WrittenAudioResampled ==
    (wav.rate # 0 /\ sampleRate # SAMPLE_RATE) =>
        /\ wav.rate = SAMPLE_RATE
        /\ wav.samples * sampleRate - audioLen * SAMPLE_RATE <= sampleRate
        /\ audioLen * SAMPLE_RATE - wav.samples * sampleRate <= sampleRate

(***************************************************************************)
(* from_files_to_files: multiprocessing.Pool.starmap over the items.       *)
(* starmap cuts the items into chunks of consecutive items; a worker runs  *)
(* a chunk item by item and an exception ends the chunk; when every chunk  *)
(* has finished, starmap returns, or raises the first exception reported.  *)
(***************************************************************************)

BatchSize == 5
MaxWorkers == 2

Items == 1..BatchSize

\* Pool._map_async: chunksize, extra = divmod(len(iterable), len(pool) * 4);
\* if extra: chunksize += 1
ChunkSize(n, workers) ==
    (n \div (workers * 4)) + (IF n % (workers * 4) # 0 THEN 1 ELSE 0)

\* Pool._get_tasks: the items in order, ChunkSize at a time
RECURSIVE ChunksFrom(_, _)
ChunksFrom(first, size) ==
    IF first > BatchSize THEN <<>>
    ELSE LET last == IF first + size - 1 > BatchSize
                     THEN BatchSize ELSE first + size - 1
         IN  <<[k \in 1..(last - first + 1) |-> first + k - 1]>>
             \o ChunksFrom(last + 1, size)

Chunks(workers) == ChunksFrom(1, ChunkSize(BatchSize, workers))

BatchInit ==
    /\ bFailing \in SUBSET Items
    /\ bWorkers \in 1..MaxWorkers
    /\ bQueue = Chunks(bWorkers)
    /\ bWorker = [w \in 1..bWorkers |-> [busy |-> FALSE, left |-> <<>>]]
    /\ bOutputs = {}
    /\ bDone = 0
    /\ bExc = "none"
    /\ bCall = "running"
    /\ CorrectIdle /\ LintIdle /\ PronIdle /\ PipeIdle

\* An idle worker takes the next chunk
TakeChunk(w) ==
    /\ bCall = "running"
    /\ ~bWorker[w].busy
    /\ bQueue # <<>>
    /\ bWorker' = [bWorker EXCEPT ![w] = [busy |-> TRUE, left |-> Head(bQueue)]]
    /\ bQueue' = Tail(bQueue)
    /\ UNCHANGED <<bFailing, bWorkers, bOutputs, bDone, bExc>>
    /\ UNCHANGED bCall
    /\ UNCHANGED <<correctVars, lintVars, pronVars, pipeVars>>

\* from_file_to_file on the chunk's next item: from_file(...).save(output),
\* or the item's pipeline raises, which ends the chunk: its other items
\* are not run, and the pool keeps the first exception
RunItem(w) ==
    /\ bCall = "running"
    /\ bWorker[w].busy
    /\ LET item == Head(bWorker[w].left)
           rest == Tail(bWorker[w].left)
       IN  IF item \in bFailing
           THEN /\ bWorker' = [bWorker EXCEPT ![w] = [busy |-> FALSE, left |-> <<>>]]
                /\ bExc' = IF bExc = "none" THEN "raised" ELSE bExc
                /\ bDone' = bDone + 1
                /\ UNCHANGED bOutputs
           ELSE /\ bOutputs' = bOutputs \cup {item}
                /\ bWorker' = [bWorker EXCEPT
                                 ![w] = [busy |-> rest # <<>>, left |-> rest]]
                /\ bDone' = IF rest = <<>> THEN bDone + 1 ELSE bDone
                /\ UNCHANGED bExc
    /\ UNCHANGED <<bFailing, bWorkers, bQueue, bCall>>
    /\ UNCHANGED <<correctVars, lintVars, pronVars, pipeVars>>

\* pool.starmap returns once every chunk has finished, or raises the
\* exception kept; from_files_to_files has no handler for it
FinishBatch ==
    /\ bCall = "running"
    /\ bDone = Len(Chunks(bWorkers))
    /\ bCall' = IF bExc = "none" THEN "returned" ELSE "raised"
    /\ UNCHANGED <<bFailing, bWorkers, bQueue, bWorker, bOutputs, bDone, bExc>>
    /\ UNCHANGED <<correctVars, lintVars, pronVars, pipeVars>>

BatchNext ==
    \/ \E w \in 1..bWorkers : TakeChunk(w)
    \/ \E w \in 1..bWorkers : RunItem(w)
    \/ FinishBatch

SpecBatch == BatchInit /\ [][BatchNext]_vars

\* C4: when exactly one item of the batch fails, the batch call does not
\* raise: it returns, and the output of every other item has been written.
C4_BatchIsolation ==
    (bCall \in {"returned", "raised"} /\ Cardinality(bFailing) = 1) =>
        /\ bCall = "returned"
        /\ bOutputs = Items \ bFailing

\* C11: the stages of one item's pipeline are strictly ordered: while HVite
\* runs, HCopy has already exited, having produced tmp.plp if it produced it
\* at all; and when correct_alignment reads the decoder's output (and at
\* every later position of the caller), HVite has exited.
C11_StagesOrdered ==
    /\ hvite = "running" => hcopy = "exited"
    /\ pc \in {"correct", "rmtree_scan", "rmtree_unlink", "rmtree_rmdir",
               "exit", "returned", "raised"} => hvite = "exited"

=============================================================================
